---- MODULE Spec2Model ----
(***************************************************************************)
(* A model of src/i18n.js: the I18N singleton (language detection,         *)
(* translation loading with fallback, key resolution, DOM application,     *)
(* the language switcher and the message listener).                        *)
(*                                                                         *)
(* JavaScript strings that the code splits (key paths, the browser locale) *)
(* are sequences of tokens, a token being either a separator ("." or "-")  *)
(* or a separator-free run of characters; Str joins them into the string.  *)
(* JavaScript values are records [type, v].                                *)
(***************************************************************************)
EXTENDS Naturals, Sequences, FiniteSets, TLC

VARIABLES
    currentLang,        \* I18N.currentLang
    translations,       \* I18N.translations (a JavaScript value)
    storage,            \* localStorage['eea-lang'], or Absent
    url,                \* the 'lang' query parameter of window.location, or Absent
    docLang,            \* document.documentElement.lang
    navigatorLanguage,  \* navigator.language: [present, value]
    dom,                \* the annotated elements, in document order
    buttons,            \* the [data-lang] elements
    select,             \* the #lang-select control
    initState,          \* "pending", "running" or "done"
    calls,              \* the async invocations in flight, in order of invocation
    switches,           \* number of script calls, messages, clicks and changes that passed validation
    events,             \* the 'languageChanged' events dispatched: [count, lang]
    last,               \* what the last step did (history)
    ret,                \* the last direct call of t or detectLanguage: [fn, arg, value]
    frames,             \* the iframe elements, in document order: [window, posted]
    steps               \* the statements a switchLanguage call run alone has executed (history)

vars == <<currentLang, translations, storage, url, docLang, navigatorLanguage, dom,
          buttons, select, initState, calls, switches, events, last, ret, frames, steps>>

-----------------------------------------------------------------------------
(* Bounds of the model. *)

\* script calls, messages, clicks and changes whose code passes validation, over a
\* whole run (a click or a change runs every handler bound to the element)
MaxSwitches == 2
\* tokens of a key path drawn for a direct call of t
MaxPathLen == 3
\* iframe elements of the page, for a direct call of notifyIframes
MaxFrames == 3
\* messages posted to one frame, over a whole run of direct calls of notifyIframes
MaxPosts == 2

-----------------------------------------------------------------------------
(* Strings and JavaScript values. *)

\* null / undefined where the code expects a string
Absent == "<absent>"

RECURSIVE Str(_)
\* the string a token sequence stands for
Str(s) == IF s = <<>> THEN "" ELSE Head(s) \o Str(Tail(s))

RECURSIVE Split(_, _)
\* String.prototype.split(sep) on a token sequence: the segments, as strings
Split(s, sep) ==
    IF \A i \in 1..Len(s) : s[i] # sep
    THEN <<Str(s)>>
    ELSE LET p == CHOOSE i \in 1..Len(s) : s[i] = sep /\ \A j \in 1..(i - 1) : s[j] # sep
         IN  <<Str(SubSeq(s, 1, p - 1))>> \o Split(SubSeq(s, p + 1, Len(s)), sep)

JNull == [type |-> "null", v |-> "null"]
JString(s) == [type |-> "string", v |-> s]
JNumber(s) == [type |-> "number", v |-> s]
JObject(f) == [type |-> "object", v |-> f]
JFunction(s) == [type |-> "function", v |-> s]

\* ToBoolean
Truthy(x) ==
    /\ x.type # "null"
    /\ ~(x.type = "string" /\ x.v = "")
    /\ ~(x.type = "number" /\ x.v = "0")

\* the typeof operator
TypeOf(x) == IF x.type = "null" THEN "object" ELSE x.type

\* what every parsed JSON object inherits from Object.prototype
ObjectPrototype ==
    [constructor |-> JFunction("function Object() { [native code] }"),
     toString |-> JFunction("function toString() { [native code] }"),
     valueOf |-> JFunction("function valueOf() { [native code] }"),
     hasOwnProperty |-> JFunction("function hasOwnProperty() { [native code] }")]

\* key in value, for an object: own properties and the prototype chain
In(key, value) == key \in DOMAIN value.v \/ key \in DOMAIN ObjectPrototype

\* value[key], for an object
Get(value, key) ==
    IF key \in DOMAIN value.v THEN value.v[key]
    ELSE IF key \in DOMAIN ObjectPrototype THEN ObjectPrototype[key]
    ELSE JNull

\* a === b for a value a and a string b
StrictEqualsString(a, b) == a.type = "string" /\ a.v = b

\* ToString, as the DOM setters of title and placeholder apply it
JsToString(x) == IF x.type = "object" THEN "[object Object]" ELSE x.v

\* textContent and innerHTML take null as the empty string
ToContent(x) == IF x.type = "null" THEN "" ELSE JsToString(x)

-----------------------------------------------------------------------------
(* The I18N object's constants. *)

supportedLangs == <<"en", "fr", "es">>
defaultLang == "en"

\* Array.prototype.includes
Includes(arr, x) == \E i \in 1..Len(arr) : arr[i] = x

-----------------------------------------------------------------------------
(* detectLanguage *)

\* navigator.language?.split('-')[0]
BrowserLang ==
    IF navigatorLanguage.present
    THEN Split(navigatorLanguage.value, "-")[1]
    ELSE Absent

\* a string that is neither null/undefined nor empty
TruthyString(s) == s # Absent /\ s # ""

\* detectLanguage without the membership test on the URL parameter
detectLanguageUnchecked ==
    IF TruthyString(url) THEN url
    ELSE IF TruthyString(storage) /\ Includes(supportedLangs, storage) THEN storage
    ELSE IF TruthyString(BrowserLang) /\ Includes(supportedLangs, BrowserLang) THEN BrowserLang
    ELSE defaultLang

\* detectLanguage with the storage entry consulted before the URL parameter
detectLanguageStorageFirst ==
    IF TruthyString(storage) /\ Includes(supportedLangs, storage) THEN storage
    ELSE IF TruthyString(url) /\ Includes(supportedLangs, url) THEN url
    ELSE IF TruthyString(BrowserLang) /\ Includes(supportedLangs, BrowserLang) THEN BrowserLang
    ELSE defaultLang

detectLanguage ==
    IF TruthyString(url) /\ Includes(supportedLangs, url) THEN url
    ELSE IF TruthyString(storage) /\ Includes(supportedLangs, storage) THEN storage
    ELSE IF TruthyString(BrowserLang) /\ Includes(supportedLangs, BrowserLang) THEN BrowserLang
    ELSE defaultLang

-----------------------------------------------------------------------------
(* t *)

RECURSIVE Descend(_, _, _, _)
\* the for loop of t over keys[i..], from value
Descend(value, keys, i, keyPath) ==
    IF i > Len(keys) THEN value
    ELSE IF Truthy(value) /\ TypeOf(value) = "object" /\ In(keys[i], value)
         THEN Descend(Get(value, keys[i]), keys, i + 1, keyPath)
         ELSE JString(Str(keyPath))

t(tr, keyPath) ==
    IF ~Truthy(tr) THEN JString(Str(keyPath))
    ELSE Descend(tr, Split(keyPath, "."), 1, keyPath)

-----------------------------------------------------------------------------
(* The server's translation files, lang/<code>.json, as parsed. *)

EnBundle ==
    JObject([title |-> JObject([main |-> JString("Hello"),
                                sub |-> JString("<b>Welcome</b>")]),
             form |-> JObject([name |-> JString("Name")])])

\* "form" is a string, not a mapping
FrBundle ==
    JObject([title |-> JObject([main |-> JString("Bonjour"),
                                sub |-> JString("<b>Bienvenue</b>")]),
             form |-> JString("Formulaire")])

\* "title.sub" is a mapping, not a string; "form.name" is null
EsBundle ==
    JObject([title |-> JObject([main |-> JString("Hola"),
                                sub |-> JObject([text |-> JString("Bienvenido")])]),
             form |-> JObject([name |-> JNull])])

\* the body of lang/<lang>.json
Bundle(lang) ==
    CASE lang = "en" -> EnBundle
      [] lang = "fr" -> FrBundle
      [] lang = "es" -> EsBundle

-----------------------------------------------------------------------------
(* The page's markup. *)

\* the data-i18n* attributes of the page's elements, in document order:
\* <h1 data-i18n="title.main">, <div data-i18n="title.sub" data-i18n-html>,
\* <input data-i18n-placeholder="form.name" data-i18n-title="form.name">,
\* <span data-i18n="footer.note"> (a key of no bundle), <p>
Attrs ==
    << "data-i18n" :> <<"title", ".", "main">>,
       ("data-i18n" :> <<"title", ".", "sub">>) @@ ("data-i18n-html" :> <<>>),
       ("data-i18n-placeholder" :> <<"form", ".", "name">>)
           @@ ("data-i18n-title" :> <<"form", ".", "name">>),
       "data-i18n" :> <<"footer", ".", "note">>,
       <<>> >>

\* an element's content: markup parsed as HTML (authored, or set through innerHTML) or
\* plain text (set through textContent)
Html(s) == [mode |-> "html", s |-> s]
Text(s) == [mode |-> "text", s |-> s]

\* the authored content, placeholder and title of the same elements
Markup ==
    << [content |-> Html("Hello (static)"), placeholder |-> "", title |-> ""],
       [content |-> Html("<i>Welcome (static)</i>"), placeholder |-> "", title |-> ""],
       [content |-> Html(""), placeholder |-> "Your name", title |-> "Your full name"],
       [content |-> Html("Note (static)"), placeholder |-> "", title |-> ""],
       [content |-> Html("Plain paragraph"), placeholder |-> "", title |-> "Plain"] >>

\* the codes of the [data-lang] elements, in document order
ButtonLangs == <<"en", "fr", "de">>

\* the option values of #lang-select
SelectOptions == {"en", "fr", "es"}

\* el.hasAttribute(name), also what querySelectorAll('[name]') selects by
HasAttribute(i, name) == name \in DOMAIN Attrs[i]

-----------------------------------------------------------------------------
(* applyTranslations *)

\* the test dropped: every element is written
ResolvedAlways(translation, key) == TRUE

\* translation !== key
Resolved(translation, key) == ~StrictEqualsString(translation, Str(key))

\* += in place of =
NewContentAppend(i, old, translation) == [old EXCEPT !.s = @ \o ToContent(translation)]

\* the content an element is given: el.innerHTML = / el.textContent = translation
NewContent(i, old, translation) ==
    IF HasAttribute(i, "data-i18n-html")
    THEN Html(ToContent(translation))
    ELSE Text(ToContent(translation))

\* the first pass: [data-i18n] elements
ApplyText(d, tr) ==
    [i \in DOMAIN d |->
        IF HasAttribute(i, "data-i18n")
        THEN LET key == Attrs[i]["data-i18n"]
                 translation == t(tr, key)
             IN  IF Resolved(translation, key)
                 THEN [d[i] EXCEPT !.content = NewContent(i, @, translation)]
                 ELSE d[i]
        ELSE d[i]]

\* the second pass: [data-i18n-placeholder] elements
ApplyPlaceholders(d, tr) ==
    [i \in DOMAIN d |->
        IF HasAttribute(i, "data-i18n-placeholder")
        THEN LET key == Attrs[i]["data-i18n-placeholder"]
                 translation == t(tr, key)
             IN  IF Resolved(translation, key)
                 THEN [d[i] EXCEPT !.placeholder = JsToString(translation)]
                 ELSE d[i]
        ELSE d[i]]

\* the third pass: [data-i18n-title] elements
ApplyTitles(d, tr) ==
    [i \in DOMAIN d |->
        IF HasAttribute(i, "data-i18n-title")
        THEN LET key == Attrs[i]["data-i18n-title"]
                 translation == t(tr, key)
             IN  IF Resolved(translation, key)
                 THEN [d[i] EXCEPT !.title = JsToString(translation)]
                 ELSE d[i]
        ELSE d[i]]

applyTranslations(d, tr) == ApplyTitles(ApplyPlaceholders(ApplyText(d, tr), tr), tr)

-----------------------------------------------------------------------------
(* setupLanguageSwitcher *)

\* the marker added to the current language's elements and never removed
SetupButtonsAddOnly(bs, lang) ==
    [i \in DOMAIN bs |->
        [active |-> (bs[i].active \/ ButtonLangs[i] = lang),
         handlers |-> bs[i].handlers + 1]]

\* the [data-lang] elements after the forEach: marker toggled, one more click handler
SetupButtons(bs, lang) ==
    [i \in DOMAIN bs |->
        [active |-> (ButtonLangs[i] = lang), handlers |-> bs[i].handlers + 1]]

\* #lang-select after the if: value set (a value that is no option selects nothing),
\* one more change handler
SetupSelect(sel, lang) ==
    IF sel.present
    THEN [sel EXCEPT !.value = IF lang \in SelectOptions THEN lang ELSE "",
                     !.handlers = @ + 1]
    ELSE sel

-----------------------------------------------------------------------------
(* notifyIframes *)

\* an iframe element: window is "ok" (contentWindow is accessible), "null" (it has no
\* contentWindow) or "throws" (the access raises); posted: the lang of each langChange
\* message posted to it, in order
Frame(window) == [window |-> window, posted |-> <<>>]

Windows == {"ok", "null", "throws"}

\* the callback with its try/catch dropped: the exception of a frame leaves it
VisitUncaught(frame, lang) ==
    [frame |-> IF frame.window = "ok"
               THEN [frame EXCEPT !.posted = Append(@, lang)]
               ELSE frame,
     thrown |-> frame.window = "throws"]

\* the forEach callback: try { if (iframe.contentWindow) postMessage } catch { }
Visit(frame, lang) ==
    [frame |-> IF frame.window = "ok"
               THEN [frame EXCEPT !.posted = Append(@, lang)]
               ELSE frame,
     thrown |-> FALSE]

\* iframes.forEach from the i-th element on: an exception that leaves the callback
\* ends the iteration
RECURSIVE ForEach(_, _, _)
ForEach(fs, i, lang) ==
    IF i > Len(fs)
    THEN [frames |-> fs, thrown |-> FALSE]
    ELSE LET r == Visit(fs[i], lang)
             visited == [fs EXCEPT ![i] = r.frame]
         IN  IF r.thrown
             THEN [frames |-> visited, thrown |-> TRUE]
             ELSE ForEach(visited, i + 1, lang)

notifyIframes(fs, lang) == ForEach(fs, 1, lang)

\* the iframe elements of the page of the main specification
PageFrames == <<Frame("ok"), Frame("throws")>>

-----------------------------------------------------------------------------
(* The state machine. *)

\* the codes another script calls switchLanguage with
CallCodes == {"es", "de"}

\* the messages the window receives
Messages ==
    {[type |-> "langChange", lang |-> x] : x \in {"es", "de"}}
        \cup {[type |-> "resize", lang |-> "es"]}

\* the options the user picks in #lang-select
SelectPicks == {"en", "fr"}

\* the URL parameter and the storage entry a page load starts from
PageEnvs ==
    {[url |-> Absent, storage |-> Absent], [url |-> "de", storage |-> "es"]}

Step(op, lang) ==
    [op |-> op, lang |-> lang, load |-> "none", nfetch |-> 0, superseded |-> FALSE,
     rerun |-> FALSE, user |-> FALSE]

\* an async invocation suspended in loadTranslations: kind is "init" or "switch", lang
\* its language, req the language of the fetch it awaits, pc "fetch" (awaiting the
\* response) or "json" (awaiting the parsed body), nfetch the fetches it has issued;
\* superseded: a later switchLanguage has passed validation (history); user: a click
\* or change handler made the call (history)
Call(kind, lang, superseded, user) ==
    [kind |-> kind, lang |-> lang, req |-> lang, pc |-> "fetch", nfetch |-> 1,
     superseded |-> superseded, user |-> user]

Remove(s, i) == SubSeq(s, 1, i - 1) \o SubSeq(s, i + 1, Len(s))

NoRet == [fn |-> "none", arg |-> <<>>, value |-> JNull]

\* the I18N object and the page's controls once the script has run, before init is
\* called
InitControls ==
    /\ currentLang = "en"
    /\ docLang = ""
    /\ buttons = [i \in DOMAIN ButtonLangs |-> [active |-> FALSE, handlers |-> 0]]
    /\ select = [present |-> TRUE, value |-> "en", handlers |-> 0]
    /\ initState = "pending"
    /\ calls = <<>>
    /\ switches = 0
    /\ events = [count |-> 0, lang |-> Absent]
    /\ last = Step("start", Absent)
    /\ frames = PageFrames
    /\ steps = <<>>

Init ==
    /\ InitControls
    /\ translations = JNull
    /\ dom = Markup
    /\ ret = NoRet
    /\ \E env \in PageEnvs : url = env.url /\ storage = env.storage
    /\ navigatorLanguage = [present |-> TRUE, value |-> <<"en", "-", "US">>]

\* init, up to its await
InitCall ==
    /\ initState = "pending"
    /\ initState' = "running"
    /\ currentLang' = detectLanguage
    /\ calls' = Append(calls, Call("init", detectLanguage, FALSE, FALSE))
    /\ last' = Step("initCall", Absent)
    /\ UNCHANGED <<translations, storage, url, docLang, navigatorLanguage, dom, buttons,
                   select, switches, events, ret, frames,
                   steps>>

\* the membership test dropped
ValidateAny(lang) == TRUE

\* supportedLangs.includes(lang)
Validate(lang) == Includes(supportedLangs, lang)

\* the default language stored in place of lang
PersistedLangDefault(lang) == defaultLang

\* the value switchLanguage(lang) stores under 'eea-lang'
PersistedLang(lang) == lang

\* n switchLanguage(lang) calls in a row that pass validation, each up to its await
Invoke(lang, n, user) ==
    /\ switches < MaxSwitches
    /\ switches' = switches + 1
    /\ currentLang' = lang
    /\ storage' = PersistedLang(lang)
    /\ url' = lang
    /\ calls' = [i \in DOMAIN calls |-> [calls[i] EXCEPT !.superseded = TRUE]]
                    \o [i \in 1..n |-> Call("switch", lang, i < n, user)]
    /\ last' = Step("switchCall", lang)
    /\ UNCHANGED <<translations, docLang, navigatorLanguage, dom, buttons, initState,
                   events, ret, frames,
                   steps>>

\* switchLanguage(lang) calls that fail validation: the early return
Reject(lang) ==
    /\ last' = Step("switchCall", lang)
    /\ UNCHANGED <<currentLang, translations, storage, url, docLang, navigatorLanguage,
                   dom, buttons, initState, calls, switches, events, ret, frames,
                   steps>>

\* n calls of switchLanguage(lang) in a row, up to the await of each
switchLanguage(lang, n, user) ==
    IF ~Validate(lang) THEN Reject(lang) ELSE Invoke(lang, n, user)

\* another script calls I18N.switchLanguage(lang)
SwitchCall(lang) == switchLanguage(lang, 1, FALSE) /\ UNCHANGED select

\* the window's message listener
Message(data) ==
    IF data.type = "langChange"
    THEN switchLanguage(data.lang, 1, FALSE) /\ UNCHANGED select
    ELSE UNCHANGED vars

\* a click on the i-th [data-lang] element runs every click handler bound to it
Click(i) ==
    /\ buttons[i].handlers > 0
    /\ switchLanguage(ButtonLangs[i], buttons[i].handlers, TRUE)
    /\ UNCHANGED select

\* the user picks option v of #lang-select: every change handler bound to it runs
SelectChange(v) ==
    /\ select.present
    /\ select.handlers > 0
    /\ select' = [select EXCEPT !.value = v]
    /\ switchLanguage(v, select.handlers, TRUE)

\* the attribute set to the default language
DocumentLangDefault(i) == defaultLang

\* the value switchLanguage(lang) gives document.documentElement.lang
DocumentLang(i) == calls[i].lang

\* the event's detail built from this.currentLang
DispatchEventCurrent(ev, lang) == [count |-> ev.count + 1, lang |-> currentLang]

\* window.dispatchEvent(new CustomEvent('languageChanged', { detail: { lang } }))
DispatchEvent(ev, lang) == [count |-> ev.count + 1, lang |-> lang]

\* the rest of switchLanguage once its load has settled (tr: the bundle then)
SwitchContinue(i, tr, outcome) ==
    /\ translations' = tr
    /\ dom' = applyTranslations(dom, tr)
    /\ buttons' = SetupButtons(buttons, currentLang)
    /\ select' = SetupSelect(select, currentLang)
    /\ docLang' = DocumentLang(i)
    /\ events' = DispatchEvent(events, calls[i].lang)
    /\ calls' = Remove(calls, i)
    /\ last' = [op |-> "switchDone", lang |-> calls[i].lang, load |-> outcome,
                nfetch |-> calls[i].nfetch, superseded |-> calls[i].superseded,
                rerun |-> FALSE, user |-> calls[i].user]
    /\ UNCHANGED <<currentLang, storage, url, navigatorLanguage, initState, switches,
                   ret, frames,
                   steps>>

\* the rest of init once its load has settled
InitContinue(i, tr, outcome) ==
    /\ translations' = tr
    /\ dom' = applyTranslations(dom, tr)
    /\ buttons' = SetupButtons(buttons, currentLang)
    /\ select' = SetupSelect(select, currentLang)
    /\ storage' = currentLang
    /\ docLang' = currentLang
    /\ initState' = "done"
    /\ calls' = Remove(calls, i)
    /\ last' = [op |-> "initDone", lang |-> calls[i].lang, load |-> outcome,
                nfetch |-> calls[i].nfetch, superseded |-> calls[i].superseded,
                rerun |-> FALSE, user |-> calls[i].user]
    /\ UNCHANGED <<currentLang, url, navigatorLanguage, switches, events, ret, frames,
                   steps>>

\* loadTranslations returns to its caller
Return(i, tr, outcome) ==
    IF calls[i].kind = "init"
    THEN InitContinue(i, tr, outcome)
    ELSE SwitchContinue(i, tr, outcome)

\* the test dropped: every failure retries
ShouldFallbackAlways(lang) == TRUE

\* lang !== this.defaultLang
ShouldFallback(lang) == lang # defaultLang

\* the recursive call made with the current language
FallbackLangCurrent == currentLang

\* the language of the recursive call
FallbackLang == defaultLang

\* the fallback also makes the default the current language
CatchResetsLang(i) ==
    IF ShouldFallback(calls[i].req)
    THEN /\ calls' = [calls EXCEPT ![i].req = FallbackLang, ![i].pc = "fetch",
                                   ![i].nfetch = @ + 1]
         /\ currentLang' = FallbackLang
         /\ last' = Step("fallback", Absent)
         /\ UNCHANGED <<translations, storage, url, docLang, navigatorLanguage, dom,
                        buttons, select, initState, switches, events, ret, frames,
                        steps>>
    ELSE Return(i, translations, "failed")

\* the catch block of loadTranslations(req)
Catch(i) ==
    IF ShouldFallback(calls[i].req)
    THEN /\ calls' = [calls EXCEPT ![i].req = FallbackLang, ![i].pc = "fetch",
                                   ![i].nfetch = @ + 1]
         /\ last' = Step("fallback", Absent)
         /\ UNCHANGED <<currentLang, translations, storage, url, docLang,
                        navigatorLanguage, dom, buttons, select, initState, switches,
                        events, ret, frames,
                   steps>>
    ELSE Return(i, translations, "failed")

\* the fetch resolves with response.ok
FetchResponds(i) ==
    /\ calls[i].pc = "fetch"
    /\ calls' = [calls EXCEPT ![i].pc = "json"]
    /\ last' = Step("response", Absent)
    /\ UNCHANGED <<currentLang, translations, storage, url, docLang, navigatorLanguage,
                   dom, buttons, select, initState, switches, events, ret, frames,
                   steps>>

\* the fetch rejects, or resolves with a response that is not ok
FetchFails(i) ==
    /\ calls[i].pc = "fetch"
    /\ Catch(i)

\* the body of a superseded invocation discarded
AssignedIfLatest(i, parsed) == IF calls[i].superseded THEN translations ELSE parsed

\* the value this.translations takes when the body of the i-th call's fetch is parsed
Assigned(i, parsed) == parsed

\* response.json() resolves: the assignment to this.translations, and the return
JsonResolves(i) ==
    /\ calls[i].pc = "json"
    /\ Return(i, Assigned(i, Bundle(calls[i].req)),
              IF calls[i].nfetch = 1 THEN "ok" ELSE "fallback")

\* response.json() rejects: the body does not parse
JsonFails(i) ==
    /\ calls[i].pc = "json"
    /\ Catch(i)

Next ==
    \/ InitCall
    \/ \E lang \in CallCodes : SwitchCall(lang)
    \/ \E data \in Messages : Message(data)
    \/ \E i \in DOMAIN buttons : Click(i)
    \/ \E v \in SelectPicks : SelectChange(v)
    \/ \E i \in DOMAIN calls : FetchResponds(i)
    \/ \E i \in DOMAIN calls : FetchFails(i)
    \/ \E i \in DOMAIN calls : JsonResolves(i)
    \/ \E i \in DOMAIN calls : JsonFails(i)

Spec == Init /\ [][Next]_vars

-----------------------------------------------------------------------------
(* Direct calls of detectLanguage, t and applyTranslations, each under a        *)
(* specification of its own that draws the call's inputs.                       *)

\* the values of the URL parameter and of the storage entry
EnvValues == {Absent, "", "en", "fr", "es", "de"}

\* the values of navigator.language
Locales ==
    {[present |-> FALSE, value |-> <<>>]}
        \cup {[present |-> TRUE, value |-> v] :
                v \in {<<>>, <<"fr">>, <<"es", "-", "MX">>, <<"de", "-", "DE">>,
                       <<"en", "-", "US">>, <<"-", "fr">>, <<"fr", "-">>,
                       <<"fr", "-", "CA", "-", "x">>}}

InitDetect ==
    /\ InitControls
    /\ translations = JNull
    /\ dom = Markup
    /\ ret = NoRet
    /\ url \in EnvValues
    /\ storage \in EnvValues
    /\ navigatorLanguage \in Locales

\* another script calls I18N.detectLanguage()
DetectCall ==
    /\ ret' = [fn |-> "detectLanguage", arg |-> <<>>, value |-> JString(detectLanguage)]
    /\ UNCHANGED <<currentLang, translations, storage, url, docLang, navigatorLanguage,
                   dom, buttons, select, initState, calls, switches, events, last, frames,
                   steps>>

SpecDetect == InitDetect /\ [][DetectCall]_vars

\* JSON bodies besides the three of the main specification: a string, the number 0,
\* a mapping with the empty key, a mapping with an empty translation, a mapping whose
\* value is the key path itself and with a number leaf
OtherBundles ==
    {JString("plain"),
     JNumber("0"),
     JObject(("" :> JString("empty")) @@ ("title" :> JString("Title"))),
     JObject([title |-> JObject([main |-> JString("")])]),
     JObject([footer |-> JObject([note |-> JString("footer.note")]),
              form |-> JObject([name |-> JNumber("7")])])}

Bundles == {EnBundle, FrBundle, EsBundle} \cup OtherBundles

\* the tokens of the key paths drawn
PathTokens == {".", "title", "main", "form", "name", "constructor"}

KeyPaths == UNION {[1..n -> PathTokens] : n \in 0..MaxPathLen}

InitT ==
    /\ InitControls
    /\ translations \in {JNull} \cup Bundles
    /\ dom = Markup
    /\ url = Absent
    /\ storage = Absent
    /\ navigatorLanguage = [present |-> TRUE, value |-> <<"en", "-", "US">>]
    /\ \E keyPath \in KeyPaths : ret = [NoRet EXCEPT !.arg = keyPath]

\* another script calls I18N.t(ret.arg)
TCall ==
    /\ ret.fn = "none"
    /\ ret' = [fn |-> "t", arg |-> ret.arg, value |-> t(translations, ret.arg)]
    /\ UNCHANGED <<currentLang, translations, storage, url, docLang, navigatorLanguage,
                   dom, buttons, select, initState, calls, switches, events, last, frames,
                   steps>>

SpecT == InitT /\ [][TCall]_vars

\* the content the elements may hold when applyTranslations runs: authored, or painted
\* by an earlier run with another bundle
InitApply ==
    /\ InitControls
    /\ translations \in {JNull} \cup Bundles
    /\ \E b \in {JNull} \cup Bundles : dom = applyTranslations(Markup, b)
    /\ ret = NoRet
    /\ url = Absent
    /\ storage = Absent
    /\ navigatorLanguage = [present |-> TRUE, value |-> <<"en", "-", "US">>]

\* another script calls I18N.applyTranslations()
ApplyCall ==
    /\ dom' = applyTranslations(dom, translations)
    /\ last' = [Step("apply", Absent) EXCEPT !.rerun = (last.op = "apply")]
    /\ UNCHANGED <<currentLang, translations, storage, url, docLang, navigatorLanguage,
                   buttons, select, initState, calls, switches, events, ret, frames,
                   steps>>

SpecApply == InitApply /\ [][ApplyCall]_vars

\* the outcome of a call that returns nothing, and of one that throws
JUndefined == [type |-> "undefined", v |-> "undefined"]
JThrown == [type |-> "exception", v |-> "exception"]

\* the codes notifyIframes is called with
NotifyLangs == {"fr", "de"}

\* the pages notifyIframes runs on: every sequence of up to MaxFrames iframes
FrameLists == UNION {[1..n -> {Frame(w) : w \in Windows}] : n \in 0..MaxFrames}

InitNotify ==
    /\ currentLang = "en"
    /\ translations = EnBundle
    /\ storage = "en"
    /\ url = Absent
    /\ docLang = "en"
    /\ navigatorLanguage = [present |-> TRUE, value |-> <<"en", "-", "US">>]
    /\ dom = applyTranslations(Markup, EnBundle)
    /\ buttons = SetupButtons([i \in DOMAIN ButtonLangs |->
                                  [active |-> FALSE, handlers |-> 0]], "en")
    /\ select = SetupSelect([present |-> TRUE, value |-> "en", handlers |-> 0], "en")
    /\ initState = "done"
    /\ calls = <<>>
    /\ switches = 0
    /\ events = [count |-> 0, lang |-> Absent]
    /\ last = [Step("initDone", "en") EXCEPT !.load = "ok", !.nfetch = 1]
    /\ ret = NoRet
    /\ frames \in FrameLists
    /\ steps = <<>>

\* another script (a parent page's) calls I18N.notifyIframes(lang)
NotifyCall(lang) ==
    /\ \A i \in DOMAIN frames : Len(frames[i].posted) < MaxPosts
    /\ LET r == notifyIframes(frames, lang)
       IN  /\ frames' = r.frames
           /\ ret' = [fn |-> "notifyIframes", arg |-> <<lang>>,
                      value |-> IF r.thrown THEN JThrown ELSE JUndefined]
    /\ UNCHANGED <<currentLang, translations, storage, url, docLang, navigatorLanguage,
                   dom, buttons, select, initState, calls, switches, events, last,
                   steps>>

SpecNotify == InitNotify /\ [][\E lang \in NotifyLangs : NotifyCall(lang)]_vars

-----------------------------------------------------------------------------
(* One switchLanguage invocation run alone, statement by statement: the call in     *)
(* calls[1] carries the statement it stands at, steps the statements it has run.    *)

\* the codes switchLanguage is called with
OrderLangs == {"en", "fr", "es", "de"}

\* the document lang attribute set before the load is awaited
AfterAttrBeforeLoad(pc) ==
    CASE pc = "validate" -> "commit"
      [] pc = "commit" -> "persist"
      [] pc = "persist" -> "url"
      [] pc = "url" -> "attr"
      [] pc = "attr" -> "load"
      [] pc = "load" -> "apply"
      [] pc = "apply" -> "rebind"
      [] pc = "rebind" -> "dispatch"
      [] pc = "dispatch" -> "return"

\* the statement of switchLanguage that follows the one at pc
After(pc) ==
    CASE pc = "validate" -> "commit"
      [] pc = "commit" -> "persist"
      [] pc = "persist" -> "url"
      [] pc = "url" -> "load"
      [] pc = "load" -> "apply"
      [] pc = "apply" -> "rebind"
      [] pc = "rebind" -> "attr"
      [] pc = "attr" -> "dispatch"
      [] pc = "dispatch" -> "return"

\* the page once init has settled with language base and before any switch
InitOrder ==
    \E base \in {"en", "es", "fr"}, lang \in OrderLangs :
        /\ currentLang = base
        /\ translations = Bundle(base)
        /\ storage = base
        /\ url = (CASE base = "en" -> Absent [] base = "es" -> "de" [] base = "fr" -> "fr")
        /\ docLang = base
        /\ navigatorLanguage = [present |-> TRUE, value |-> <<"en", "-", "US">>]
        /\ dom = applyTranslations(Markup, Bundle(base))
        /\ buttons = SetupButtons([i \in DOMAIN ButtonLangs |->
                                      [active |-> FALSE, handlers |-> 0]], base)
        /\ select = SetupSelect([present |-> TRUE, value |-> "en", handlers |-> 0],
                                base)
        /\ initState = "done"
        /\ calls = <<[Call("switch", lang, FALSE, FALSE) EXCEPT !.pc = "validate",
                                                                !.nfetch = 0]>>
        /\ switches = 0
        /\ events = [count |-> 0, lang |-> Absent]
        /\ last = [Step("initDone", base) EXCEPT !.load = "ok", !.nfetch = 1]
        /\ ret = NoRet
        /\ frames = PageFrames
        /\ steps = <<>>

\* the call moves on to the statement after pc, or returns
Advance(pc) ==
    IF After(pc) = "return"
    THEN calls' = <<>>
    ELSE calls' = [calls EXCEPT ![1].pc = After(pc)]

\* the statement the call stands at runs; the load statement issues the fetch and
\* suspends the call
Statement ==
    /\ calls # <<>>
    /\ LET c == calls[1]
           pc == c.pc
       IN  /\ pc \notin {"fetch", "json"}
           /\ steps' = Append(steps, pc)
           /\ IF pc = "validate" /\ ~Validate(c.lang)
              THEN calls' = <<>>
              ELSE IF pc = "load"
                   THEN calls' = [calls EXCEPT ![1].pc = "fetch", ![1].nfetch = 1]
                   ELSE Advance(pc)
           /\ currentLang' = (IF pc = "commit" THEN c.lang ELSE currentLang)
           /\ storage' = (IF pc = "persist" THEN PersistedLang(c.lang) ELSE storage)
           /\ url' = (IF pc = "url" THEN c.lang ELSE url)
           /\ dom' = (IF pc = "apply" THEN applyTranslations(dom, translations) ELSE dom)
           /\ buttons' = (IF pc = "rebind" THEN SetupButtons(buttons, currentLang)
                          ELSE buttons)
           /\ select' = (IF pc = "rebind" THEN SetupSelect(select, currentLang)
                         ELSE select)
           /\ docLang' = (IF pc = "attr" THEN c.lang ELSE docLang)
           /\ events' = (IF pc = "dispatch" THEN DispatchEvent(events, c.lang)
                         ELSE events)
    /\ UNCHANGED <<translations, navigatorLanguage, initState, switches, last, ret,
                   frames>>

\* loadTranslations returns: the call resumes after its await
LoadSettles ==
    /\ Advance("load")
    /\ steps' = Append(steps, "settled")

\* the catch block of loadTranslations
LoadCatch ==
    /\ IF ShouldFallback(calls[1].req)
       THEN /\ calls' = [calls EXCEPT ![1].req = FallbackLang, ![1].pc = "fetch",
                                      ![1].nfetch = @ + 1]
            /\ steps' = steps
       ELSE LoadSettles
    /\ UNCHANGED <<currentLang, translations, storage, url, docLang, navigatorLanguage,
                   dom, buttons, select, initState, switches, events, last, ret,
                   frames>>

LoadFetchResponds ==
    /\ calls # <<>>
    /\ calls[1].pc = "fetch"
    /\ calls' = [calls EXCEPT ![1].pc = "json"]
    /\ UNCHANGED <<currentLang, translations, storage, url, docLang, navigatorLanguage,
                   dom, buttons, select, initState, switches, events, last, ret,
                   frames, steps>>

LoadFetchFails ==
    /\ calls # <<>>
    /\ calls[1].pc = "fetch"
    /\ LoadCatch

LoadJsonResolves ==
    /\ calls # <<>>
    /\ calls[1].pc = "json"
    /\ translations' = Bundle(calls[1].req)
    /\ LoadSettles
    /\ UNCHANGED <<currentLang, storage, url, docLang, navigatorLanguage, dom, buttons,
                   select, initState, switches, events, last, ret, frames>>

LoadJsonFails ==
    /\ calls # <<>>
    /\ calls[1].pc = "json"
    /\ LoadCatch

NextOrder ==
    \/ Statement
    \/ LoadFetchResponds
    \/ LoadFetchFails
    \/ LoadJsonResolves
    \/ LoadJsonFails

SpecOrder == InitOrder /\ [][NextOrder]_vars

-----------------------------------------------------------------------------
(* The claims. *)

Settled == last.op \in {"switchDone", "initDone"}

\* C1 as stated: at the moment an invocation switchLanguage(L) settles, the document's
\* lang attribute equals L and the 'eea-lang' storage entry holds L, also when
\* another switchLanguage or init is in flight.
C1_SettledHoldsLang ==
    last.op = "switchDone" => docLang = last.lang /\ storage = last.lang

\* C1 amended: at the moment an invocation switchLanguage(L) settles, the document's
\* lang attribute equals L and the storage entry holds the current language, which is
\* L unless a later switchLanguage call passed validation before this one settled.
C1_SettledAmended ==
    last.op = "switchDone" =>
        /\ docLang = last.lang
        /\ storage = currentLang
        /\ ~last.superseded => storage = last.lang

\* a switch to a non-default language settles, not superseded, while another
\* invocation is still in flight
C1_Witness ==
    /\ last.op = "switchDone"
    /\ ~last.superseded
    /\ last.lang # defaultLang
    /\ calls # <<>>

\* C2: a switchLanguage call with a code outside {en, fr, es}, from a control, a direct
\* call or a 'langChange' message, changes nothing: current language, bundle, storage
\* entry, URL parameter, document lang, element contents and markers are unchanged,
\* no fetch is issued and no languageChanged event is dispatched.
C2_UnsupportedChangesNothing ==
    [][(last'.op = "switchCall" /\ last'.lang \notin {"en", "fr", "es"}) =>
          UNCHANGED <<currentLang, translations, storage, url, docLang, dom, buttons,
                      initState, calls, switches, events>>]_vars

\* an unsupported code was requested after a bundle was loaded and while a load is in
\* flight
C2_Witness ==
    /\ last.op = "switchCall"
    /\ last.lang = "de"
    /\ translations # JNull
    /\ calls # <<>>

\* C3: in every reachable state the current language is one of the supported codes.
C3_CurrentLangSupported == currentLang \in {"en", "fr", "es"}

\* init and a switch have settled, the language is not the default, and an
\* unsupported code has just been requested
C3_Witness ==
    /\ initState = "done"
    /\ events.count > 0
    /\ currentLang # defaultLang
    /\ last.op = "switchCall"
    /\ last.lang = "de"

\* the text of a locale before its first "-"
C4_PrimarySubtag(loc) ==
    LET cut == {i \in 1..Len(loc) : loc[i] = "-"} \cup {Len(loc) + 1}
        first == CHOOSE i \in cut : \A j \in cut : i <= j
    IN  Str(SubSeq(loc, 1, first - 1))

\* the three ranked sources
C4_Tiers ==
    << url, storage,
       IF navigatorLanguage.present THEN C4_PrimarySubtag(navigatorLanguage.value)
       ELSE Absent >>

\* the first source that holds a supported code, else the default
C4_Expected ==
    LET ok == {i \in 1..3 : C4_Tiers[i] \in {"en", "fr", "es"}}
    IN  IF ok = {} THEN "en" ELSE C4_Tiers[CHOOSE i \in ok : \A j \in ok : i <= j]

\* C4: detectLanguage returns the first of (URL 'lang' parameter, stored 'eea-lang'
\* value, primary subtag of the browser locale) that is present and supported, the
\* default 'en' if none is, and the call modifies no state.
C4_DetectPriority ==
    /\ [](ret.fn = "detectLanguage" => ret.value = JString(C4_Expected))
    /\ [][ret'.fn = "detectLanguage" =>
            UNCHANGED <<currentLang, translations, storage, url, docLang,
                        navigatorLanguage, dom, buttons, select, initState, calls,
                        switches, events>>]_vars

\* an unsupported URL parameter and an empty storage entry are skipped and the
\* locale's primary subtag decides
C4_Witness ==
    /\ ret.fn = "detectLanguage"
    /\ url = "de"
    /\ storage = ""
    /\ navigatorLanguage = [present |-> TRUE, value |-> <<"es", "-", "MX">>]
    /\ ret.value = JString("es")

\* C5: when loadTranslations(L) for a non-default L fails and the fallback load of the
\* default language succeeds, then when the call settles the active bundle is the
\* default language's and the keys resolve against it.
C5_FallbackActivatesDefault ==
    (Settled /\ last.load = "fallback") =>
        /\ last.lang # defaultLang
        /\ translations = EnBundle
        /\ t(translations, <<"title", ".", "main">>) = JString("Hello")
        /\ t(translations, <<"form", ".", "name">>) = JString("Name")
        /\ dom[1].content = Text("Hello")
        /\ dom[3].placeholder = "Name"

\* a switch to fr fell back to en while another invocation is in flight
C5_Witness ==
    /\ last.op = "switchDone"
    /\ last.load = "fallback"
    /\ last.lang = "fr"
    /\ calls # <<>>

\* the key paths of the page's elements
C6_PageKeys == {Attrs[i][a] : <<i, a>> \in {<<1, "data-i18n">>, <<2, "data-i18n">>,
                                              <<3, "data-i18n-title">>,
                                              <<4, "data-i18n">>}}

\* C6 as stated: when the load of L and the fallback load of the default both fail (or
\* L is the default and its load fails), the translation state is empty when the call
\* settles, from any reachable state, and t(k) returns k for every key path k.
C6_EmptyAfterDoubleFailure ==
    (Settled /\ last.load = "failed") =>
        /\ translations = JNull
        /\ \A k \in C6_PageKeys : t(translations, k) = JString(Str(k))

\* what a load in flight, or the load just settled, has fetched: one fetch for its
\* language, and a second one only for the default after that failed
C7_AtMostTwoFetches ==
    /\ \A i \in DOMAIN calls :
          /\ calls[i].pc \in {"fetch", "json"}
          /\ calls[i].nfetch \in {1, 2}
          /\ calls[i].nfetch = 1 => calls[i].req = calls[i].lang
          /\ calls[i].nfetch = 2 =>
                calls[i].req = defaultLang /\ calls[i].lang # defaultLang
    /\ Settled =>
          /\ last.nfetch \in {1, 2}
          /\ last.load = "ok" => last.nfetch = 1
          /\ last.load = "fallback" => last.nfetch = 2
          /\ last.load = "failed" =>
                last.nfetch = IF last.lang = defaultLang THEN 1 ELSE 2

\* the awaits a load in flight has ahead of it at most: the response and the body of
\* its fetch, and those of the fallback fetch while that is still possible
C7_Rank(c) ==
    (IF c.req = c.lang /\ c.lang # defaultLang THEN 2 ELSE 0)
        + (IF c.pc = "fetch" THEN 2 ELSE 1)

RECURSIVE C7_RankFrom(_)
C7_RankFrom(i) == IF i > Len(calls) THEN 0 ELSE C7_Rank(calls[i]) + C7_RankFrom(i + 1)

C7_TotalRank == C7_RankFrom(1)

\* C7: provided every fetch eventually responds or fails, every loadTranslations call
\* terminates, after at most two fetches: one for lang and, only if that fails and
\* lang is not the default, one for the default; a failed default load triggers none.
\* Termination is stated by a variant: every response or failure a load receives
\* settles it or takes it strictly closer to settling.
C7_LoadTerminates ==
    /\ []C7_AtMostTwoFetches
    /\ [][(calls' # calls /\ Len(calls') <= Len(calls)) =>
            C7_TotalRank' < C7_TotalRank]_vars

\* a load settled after its fetch and the fallback fetch of the default both failed
C7_Witness ==
    /\ Settled
    /\ last.load = "failed"
    /\ last.nfetch = 2
    /\ calls = <<>>

RECURSIVE C8_OwnDescend(_, _, _, _)
\* the descent through the keys the mappings hold
C8_OwnDescend(value, keys, i, keyPath) ==
    IF i > Len(keys) THEN value
    ELSE IF value.type = "object" /\ keys[i] \in DOMAIN value.v
         THEN C8_OwnDescend(value.v[keys[i]], keys, i + 1, keyPath)
         ELSE JString(Str(keyPath))

\* C8 as stated: with no bundle loaded t(keyPath) returns keyPath; with a bundle it
\* returns the value reached by descending the dot-separated segments when every
\* segment is a key of the mapping reached so far, and keyPath when some segment is
\* absent or the value reached before it is not a mapping; the bundle is not modified.
C8_ResolvesOwnKeys ==
    ret.fn = "t" =>
        ret.value = IF Truthy(translations)
                    THEN C8_OwnDescend(translations, Split(ret.arg, "."), 1, ret.arg)
                    ELSE JString(Str(ret.arg))

\* C9: applyTranslations is idempotent: run twice in a row with no change to the
\* bundle in between, the second run leaves every element's content, placeholder and
\* title as the first left them.
C9_ApplyIdempotent ==
    [][(last'.op = "apply" /\ last'.rerun) => dom' = dom]_vars

\* a second run in a row, over elements painted by the es bundle and then the fr one
C9_Witness ==
    /\ last.op = "apply"
    /\ last.rerun
    /\ translations = FrBundle
    /\ dom[1].content = Text("Bonjour")
    /\ dom[3].placeholder = "null"

\* the element's attribute is absent, or t returns its key path
C10_Unresolved(i, attr) ==
    \/ ~HasAttribute(i, attr)
    \/ StrictEqualsString(t(translations, Attrs[i][attr]), Str(Attrs[i][attr]))

\* C10: applyTranslations leaves an element's content, placeholder or title untouched
\* whenever resolution of its key fails (t returns the key itself, also with no bundle
\* loaded) and never touches an element without data-i18n, data-i18n-placeholder and
\* data-i18n-title.
C10_UnresolvedLeftUntouched ==
    [][last'.op = "apply" =>
          \A i \in DOMAIN dom :
              /\ C10_Unresolved(i, "data-i18n") => dom'[i].content = dom[i].content
              /\ C10_Unresolved(i, "data-i18n-placeholder") =>
                    dom'[i].placeholder = dom[i].placeholder
              /\ C10_Unresolved(i, "data-i18n-title") => dom'[i].title = dom[i].title]_vars

\* after a run with the fr bundle, whose "form" is no mapping, the placeholder painted
\* by the en bundle, the authored note and the plain paragraph are as before
C10_Witness ==
    /\ last.op = "apply"
    /\ translations = FrBundle
    /\ dom[1].content = Text("Bonjour")
    /\ dom[3].placeholder = "Name"
    /\ dom[4] = Markup[4]
    /\ dom[5] = Markup[5]

\* the i-th frame has been posted a langChange message carrying lang
C11_Posted(i, lang) == \E k \in DOMAIN frames[i].posted : frames[i].posted[k] = lang

\* C11: a language change made by a click on a [data-lang] element or by a change of
\* #lang-select that passes validation has, once it has settled and nothing is in
\* flight any more, sent a langChange message with its code to every embedded frame
\* whose window is accessible.
C11_UserSwitchNotifiesFrames ==
    (last.op = "switchDone" /\ last.user /\ calls = <<>>) =>
        \A i \in DOMAIN frames : frames[i].window = "ok" => C11_Posted(i, last.lang)

\* C12: every switchLanguage(L) invocation with a supported L dispatches, in the step
\* in which it settles, exactly one languageChanged event with detail.lang = L,
\* whatever the outcome of its load; no other step (init, a call with an unsupported
\* code, a step of a load) dispatches an event.
C12_OneEventPerSettledSwitch ==
    [][/\ last'.op = "switchDone" =>
            events' = [count |-> events.count + 1, lang |-> last'.lang]
       /\ last'.op # "switchDone" => events' = events]_vars

\* two overlapping switches have settled, the last one after a double failure and
\* superseded by the other; init has settled too
C12_Witness ==
    /\ last.op = "switchDone"
    /\ last.load = "failed"
    /\ last.superseded
    /\ events = [count |-> 2, lang |-> last.lang]
    /\ currentLang # last.lang
    /\ initState = "done"
    /\ calls = <<>>

\* C13: once init has settled, in every state with no switch in flight, the URL's
\* 'lang' query parameter equals the current language, whatever the URL the page was
\* loaded with.
C13_UrlReflectsCurrentLang ==
    (initState = "done" /\ calls = <<>>) => url = currentLang

\* C14: when setupLanguageSwitcher has just run (init or a switchLanguage invocation
\* has settled), a [data-lang] element carries the 'active' marker iff its code is the
\* current language, and the value of #lang-select, if the page has one, is the
\* current language; also when the invocation that settled is not the latest one.
C14_MarkersMatchCurrentLang ==
    Settled =>
        /\ \A i \in DOMAIN buttons : buttons[i].active <=> (ButtonLangs[i] = currentLang)
        /\ select.present => select.value = currentLang

\* a superseded switch settles after a click on the 'fr' element: the marker and the
\* select show 'fr', not the language of the switch that settled
C14_Witness ==
    /\ last.op = "switchDone"
    /\ last.superseded
    /\ last.lang = "es"
    /\ currentLang = "fr"
    /\ buttons[2].active
    /\ ~buttons[1].active
    /\ select.value = "fr"
    /\ calls # <<>>

\* C15: a call notifyIframes(lang) posts exactly one langChange message carrying lang
\* to every frame whose window is accessible, wherever the frames that throw on
\* access stand among them, posts nothing to the other frames, returns without an
\* exception and leaves the page's language state unchanged.
C15_NotifyReachesAccessibleFrames ==
    [][LET lang == ret'.arg[1]
       IN  /\ ret'.fn = "notifyIframes"
           /\ ret'.value = JUndefined
           /\ DOMAIN frames' = DOMAIN frames
           /\ \A i \in DOMAIN frames :
                 frames'[i] = IF frames[i].window = "ok"
                              THEN [frames[i] EXCEPT !.posted = Append(@, lang)]
                              ELSE frames[i]
           /\ UNCHANGED <<currentLang, translations, storage, url, docLang, dom,
                          buttons, select, events>>]_vars

\* a frame that throws stands before two accessible frames, each posted one message
C15_Witness ==
    /\ ret.fn = "notifyIframes"
    /\ Len(frames) = 3
    /\ frames[1] = Frame("throws")
    /\ frames[2] = [window |-> "ok", posted |-> <<"fr">>]
    /\ frames[3] = [window |-> "ok", posted |-> <<"fr">>]

\* the documented sequence of one invocation with a supported code
C16_Order ==
    <<"validate", "commit", "persist", "url", "load", "settled", "apply", "rebind",
      "attr", "dispatch">>

C16_Ran(step) == \E k \in DOMAIN steps : steps[k] = step

\* C16: the statements of one switchLanguage invocation with a supported code run in
\* the order validate, commit, persist, URL replace, load, apply, rebind, document
\* lang, dispatch, each once; the load, with its fallback, has settled before the
\* apply; until then the elements, the markers, the document lang and the events
\* are as before the call, while the current language, the storage entry and the
\* URL parameter already hold the code; at the return the document lang and the
\* event carry it.
C16_StepsInOrder ==
    /\ Len(steps) <= Len(C16_Order)
    /\ steps = SubSeq(C16_Order, 1, Len(steps))
    /\ (calls # <<>> /\ calls[1].pc \in {"fetch", "json"}) =>
            /\ steps = SubSeq(C16_Order, 1, 5)
            /\ currentLang = calls[1].lang
            /\ storage = calls[1].lang
            /\ url = calls[1].lang
    /\ (C16_Ran("commit") /\ ~C16_Ran("settled")) =>
            /\ events.count = 0
            /\ docLang = last.lang
            /\ translations = Bundle(last.lang)
            /\ dom = applyTranslations(Markup, Bundle(last.lang))
            /\ \A i \in DOMAIN buttons : buttons[i].handlers = 1
    /\ C16_Ran("dispatch") =>
            /\ calls = <<>>
            /\ docLang = currentLang
            /\ events = [count |-> 1, lang |-> currentLang]
            /\ dom = applyTranslations(dom, translations)
            /\ \A i \in DOMAIN buttons : buttons[i].handlers = 2

\* an invocation for 'fr' on a page in 'es' has returned, after a fallback load
C16_Witness ==
    /\ steps = C16_Order
    /\ calls = <<>>
    /\ last.lang = "es"
    /\ currentLang = "fr"
    /\ translations = EnBundle
    /\ docLang = "fr"
    /\ events = [count |-> 1, lang |-> "fr"]

\* the bundle a settled load has fetched
C17_Fetched == IF last.load = "ok" THEN Bundle(last.lang) ELSE EnBundle

\* C17: a switchLanguage call made while another one's load is in flight cancels
\* nothing: the loads in flight stay in flight as they were; and whenever an
\* invocation settles after a load that succeeded, the active bundle is the one
\* that load fetched and the elements are painted with it, whether or not a later
\* switch has changed the current language since.
C17_LastResolvedWins ==
    /\ []((last.op = "switchDone" /\ last.load \in {"ok", "fallback"}) =>
            /\ translations = C17_Fetched
            /\ dom = applyTranslations(dom, C17_Fetched)
            /\ dom[1].content = Text(t(C17_Fetched, <<"title", ".", "main">>).v))
    /\ [][last'.op = "switchCall" =>
            /\ Len(calls') >= Len(calls)
            /\ \A i \in DOMAIN calls :
                  /\ calls'[i].lang = calls[i].lang
                  /\ calls'[i].req = calls[i].req
                  /\ calls'[i].pc = calls[i].pc]_vars

\* switchLanguage('fr') was called while the load of switchLanguage('es') was in
\* flight; both have settled, 'es' last: the page is painted with the 'es' bundle
\* while the current language is 'fr'
C17_Witness ==
    /\ calls = <<>>
    /\ last.op = "switchDone"
    /\ last.lang = "es"
    /\ last.load = "ok"
    /\ last.superseded
    /\ events.count = 2
    /\ currentLang = "fr"
    /\ translations = EsBundle
    /\ dom[1].content = Text("Hola")

\* C18: a click on a [data-lang] element, or a change of #lang-select, with a
\* supported code starts exactly one switchLanguage invocation, however many
\* switches have settled before.
C18_GestureInvokesOnce ==
    [][(/\ last'.op = "switchCall"
        /\ Len(calls') > Len(calls)
        /\ calls'[Len(calls')].user) => Len(calls') = Len(calls) + 1]_vars

\* C19: no step of loadTranslations (a response, a failure, the fallback, the
\* assignment of the parsed bundle) changes the current language, the storage entry
\* or the URL parameter, and none but the one in which its caller goes on changes
\* the document lang; so when switchLanguage(L), with no later switch made, settles
\* after its load of L failed and fell back, the current language, the storage
\* entry, the URL parameter and the document lang are L, not the default, while the
\* active bundle is the default language's.
C19_LoadKeepsLanguageState ==
    /\ [][/\ last'.op \in {"response", "fallback"} =>
                UNCHANGED <<currentLang, storage, url, docLang>>
          /\ last'.op = "switchDone" => UNCHANGED <<currentLang, storage, url>>
          /\ last'.op = "initDone" => UNCHANGED <<currentLang, url>>]_vars
    /\ []((last.op = "switchDone" /\ last.load = "fallback" /\ ~last.superseded) =>
            /\ last.lang # defaultLang
            /\ currentLang = last.lang
            /\ storage = last.lang
            /\ url = last.lang
            /\ docLang = last.lang
            /\ translations = EnBundle)

\* switchLanguage('fr') alone, after init: the load of 'fr' failed, the default loaded
C19_Witness ==
    /\ last.op = "switchDone"
    /\ last.load = "fallback"
    /\ ~last.superseded
    /\ switches = 1
    /\ initState = "done"
    /\ calls = <<>>
    /\ currentLang = "fr"
    /\ storage = "fr"
    /\ url = "fr"
    /\ docLang = "fr"
    /\ translations = EnBundle
    /\ dom[1].content = Text("Hello")

\* init has settled and no switch or load is in flight
C20_Quiescent == initState = "done" /\ calls = <<>>

\* C20 as stated: in every quiescent state the document's lang attribute and the
\* lang of the most recently dispatched languageChanged event, if any was
\* dispatched, equal getCurrentLang().
C20_QuiescentAgrees ==
    C20_Quiescent =>
        /\ docLang = currentLang
        /\ events.count > 0 => events.lang = currentLang

\* C20 amended: when a quiescent state is reached by the settling of init, or of a
\* switchLanguage invocation after which no switchLanguage call passed validation,
\* the document's lang attribute equals getCurrentLang(), and so does, in the second
\* case, the lang of the most recently dispatched event; and a step from a
\* quiescent state to a quiescent state changes none of the three.
C20_QuiescentAmended ==
    /\ []((C20_Quiescent /\ Settled) =>
            /\ (last.op = "initDone" \/ ~last.superseded) => docLang = currentLang
            /\ (last.op = "switchDone" /\ ~last.superseded) =>
                    events.lang = currentLang)
    /\ [][(C20_Quiescent /\ C20_Quiescent') =>
             UNCHANGED <<docLang, events, currentLang>>]_vars

\* two switches overlapped and settled in the order they were made; a rejected call
\* followed
C20_Witness ==
    /\ C20_Quiescent
    /\ last.op = "switchCall"
    /\ last.lang = "de"
    /\ events = [count |-> 2, lang |-> "fr"]
    /\ docLang = "fr"
    /\ currentLang = "fr"
    /\ translations = FrBundle
====
